---- MODULE Spec2Model ----
(***************************************************************************)
(* Authentication and access-control core of the Quatro Cantos console:    *)
(* the store of empresas / usuarios / permissoes / usuario_permissoes, the  *)
(* login flow, the permission check, the seeding of the default catalog    *)
(* and the menus that drive them (main_auth.py, gestao_usuarios.py,        *)
(* models.py, auth_utils).                                                 *)
(*                                                                         *)
(* Text typed at a prompt is a sequence of one-character strings, so that  *)
(* strip(), lower(), len() and isdigit() are computed, not assumed.        *)
(***************************************************************************)
EXTENDS Integers, Sequences, FiniteSets, TLC

VARIABLES
    empresas,             \* table empresas: row id = position
    usuarios,             \* table usuarios: row id = position
    permissoes,           \* table permissoes: row id = position
    usuario_permissoes,   \* association table: set of <<usuario_id, permissao_id>>
    usuario_logado,       \* main_auth.usuario_logado: 0 is None, else a usuario id
    tela_login,           \* what fazer_login showed for usuario_logado: email typed, modules listed
    opcoes_disponiveis,   \* the menu built by exibir_menu_principal
    pc,                   \* where the console is
    retorno,              \* the menu menu_gestao_usuarios returns to
    resultado             \* outcome of the last step, as reported on the console

vars == <<empresas, usuarios, permissoes, usuario_permissoes, usuario_logado, tela_login,
          opcoes_disponiveis, pc, retorno, resultado>>

store == <<empresas, usuarios, permissoes, usuario_permissoes>>

(***************************************************************************)
(* Bounds of the model.                                                    *)
(***************************************************************************)
MaxLinhas == 3            \* rows a run inserts into empresas and usuarios together
MaxRelogio == 1           \* latest reading of the clock
MaxPermEditavel == 1      \* permission rows (by id) that are edited from outside

(***************************************************************************)
(* Text helpers: str.strip, str.lower, str.isdigit, "c in s".              *)
(***************************************************************************)
Espacos == {" "}
Digitos == {"0", "1", "2", "3", "4", "5", "6", "7", "8", "9"}
Maiusculas == <<"A", "B", "C", "D", "E", "H", "M", "N", "O", "S", "T", "U", "X">>
Minusculas == <<"a", "b", "c", "d", "e", "h", "m", "n", "o", "s", "t", "u", "x">>

LowerChar(c) ==
    IF \E i \in 1..Len(Maiusculas) : Maiusculas[i] = c
    THEN Minusculas[CHOOSE i \in 1..Len(Maiusculas) : Maiusculas[i] = c]
    ELSE c

UpperChar(c) ==
    IF \E i \in 1..Len(Minusculas) : Minusculas[i] = c
    THEN Maiusculas[CHOOSE i \in 1..Len(Minusculas) : Minusculas[i] = c]
    ELSE c

Lower(s) == [i \in 1..Len(s) |-> LowerChar(s[i])]
Upper(s) == [i \in 1..Len(s) |-> UpperChar(s[i])]

RECURSIVE LStrip(_)
LStrip(s) == IF s # <<>> /\ Head(s) \in Espacos THEN LStrip(Tail(s)) ELSE s

RECURSIVE RStrip(_)
RStrip(s) ==
    IF s # <<>> /\ s[Len(s)] \in Espacos THEN RStrip(SubSeq(s, 1, Len(s) - 1)) ELSE s

Strip(s) == RStrip(LStrip(s))

IsDigit(s) == Len(s) > 0 /\ \A i \in 1..Len(s) : s[i] \in Digitos

Contem(s, c) == \E i \in 1..Len(s) : s[i] = c

Rep(c, n) == [i \in 1..n |-> c]

\* str.split(sep)
RECURSIVE Split(_, _)
Split(s, sep) ==
    IF ~Contem(s, sep) THEN <<s>>
    ELSE LET i == CHOOSE k \in 1..Len(s) : s[k] = sep /\ \A j \in 1..(k - 1) : s[j] # sep
         IN  <<SubSeq(s, 1, i - 1)>> \o Split(SubSeq(s, i + 1, Len(s)), sep)

\* int(text): surrounding whitespace and one sign are accepted; anything else
\* raises ValueError (ok = FALSE)
DigitStr == <<"0", "1", "2", "3", "4", "5", "6", "7", "8", "9">>
DigitVal(c) == (CHOOSE d \in 1..Len(DigitStr) : DigitStr[d] = c) - 1

RECURSIVE Valor(_)
Valor(s) == IF s = <<>> THEN 0 ELSE 10 * Valor(SubSeq(s, 1, Len(s) - 1)) + DigitVal(s[Len(s)])

ParseInt(text) ==
    LET t == Strip(text)
        sinal == t # <<>> /\ Head(t) \in {"-", "+"}
        corpo == IF sinal THEN Tail(t) ELSE t
    IN  IF IsDigit(corpo)
        THEN [ok |-> TRUE,
              val |-> IF sinal /\ Head(t) = "-" THEN 0 - Valor(corpo) ELSE Valor(corpo)]
        ELSE [ok |-> FALSE, val |-> 0]

\* str(n) for a menu counter below ten
Str(n) == <<DigitStr[n + 1]>>

(***************************************************************************)
(* auth_utils: bcrypt hash.  The stored string is "$2b$12$" + salt +       *)
(* digest; the digest is kept abstract as the pair (salt, password) it is  *)
(* a one-way image of, written after the salt.                             *)
(***************************************************************************)
BcryptPrefix == "$2b$12$"

\* bcrypt.gensalt(): a salt no earlier call has returned; n counts the calls
SaltSeq == <<"salt1", "salt2", "salt3", "salt4", "salt5", "salt6">>
gensalt(n) == SaltSeq[n]

hash_password(password, salt) == <<BcryptPrefix, salt>> \o password

verify_password(password, hashed) ==
    /\ Len(hashed) >= 2
    /\ hashed[1] = BcryptPrefix
    /\ hashed = hash_password(password, hashed[2])

(***************************************************************************)
(* models.py: default permission catalog.                                  *)
(***************************************************************************)
permissoes_padrao ==
    << [codigo |-> "operacional", nome |-> "Modulo Operacional",
        descricao |-> "Acesso ao calculo de capacidade produtiva"],
       [codigo |-> "estoque_entrada", nome |-> "Estoque - Entrada",
        descricao |-> "Cadastro de entrada de produtos no estoque"],
       [codigo |-> "estoque_saida", nome |-> "Estoque - Saida",
        descricao |-> "Registro de saida e vendas de produtos"],
       [codigo |-> "financeiro", nome |-> "Modulo Financeiro",
        descricao |-> "Acesso a analise de custos e lucros"],
       [codigo |-> "rh", nome |-> "Modulo RH",
        descricao |-> "Acesso a folha de pagamento e gestao de funcionarios"] >>

Codigos == {permissoes_padrao[i].codigo : i \in 1..Len(permissoes_padrao)}

\* db.query(Permissao).filter(Permissao.codigo == codigo).first()
ExisteCodigo(ps, codigo) == \E k \in 1..Len(ps) : ps[k].codigo = codigo

RECURSIVE SeedFrom(_, _)
SeedFrom(ps, i) ==
    IF i > Len(permissoes_padrao) THEN ps
    ELSE SeedFrom(IF ExisteCodigo(ps, permissoes_padrao[i].codigo)
                  THEN ps
                  ELSE Append(ps, [codigo |-> permissoes_padrao[i].codigo,
                                   nome   |-> permissoes_padrao[i].nome,
                                   descricao |-> permissoes_padrao[i].descricao,
                                   ativa  |-> TRUE]),
                  i + 1)

\* mutant: inserts the five rows without looking for the code first
criar_permissoes_sem_verificar(ps) ==
    ps \o [i \in 1..Len(permissoes_padrao) |->
             [codigo |-> permissoes_padrao[i].codigo,
              nome |-> permissoes_padrao[i].nome,
              descricao |-> permissoes_padrao[i].descricao,
              ativa |-> TRUE]]

criar_permissoes_padrao(ps) == SeedFrom(ps, 1)

(***************************************************************************)
(* models.py: Usuario.tem_permissao.  any(...) walks the user's granted    *)
(* permissions and stops at the first match.                               *)
(***************************************************************************)
\* usuario.permissoes: the ids of the permissions granted to usuario u
PermissoesDe(up, u) == {g[2] : g \in {h \in up : h[1] = u}}

RECURSIVE AnyPermissao(_, _, _)
AnyPermissao(ps, ids, codigo_modulo) ==
    IF ids = {} THEN FALSE
    ELSE LET p == CHOOSE x \in ids : \A y \in ids : x <= y
         IN  IF ps[p].codigo = codigo_modulo /\ ps[p].ativa THEN TRUE
             ELSE AnyPermissao(ps, ids \ {p}, codigo_modulo)

\* mutant: a granted permission counts even when its row is inactive
tem_permissao_sem_ativa(us, ps, up, u, codigo_modulo) ==
    IF us[u].is_admin THEN TRUE
    ELSE \E p \in PermissoesDe(up, u) : ps[p].codigo = codigo_modulo

\* mutant: an inactive user has no permission
tem_permissao_so_ativo(us, ps, up, u, codigo_modulo) ==
    /\ us[u].ativo
    /\ IF us[u].is_admin THEN TRUE
       ELSE AnyPermissao(ps, PermissoesDe(up, u), codigo_modulo)

tem_permissao(us, ps, up, u, codigo_modulo) ==
    IF us[u].is_admin THEN TRUE
    ELSE AnyPermissao(ps, PermissoesDe(up, u), codigo_modulo)

(***************************************************************************)
(* Program constants and the texts typed at the prompts.                   *)
(***************************************************************************)
MinNome == 3
TamanhoCnpj == 14
MinSenha == 6

NomeInputs == { <<"A", "n", "a">>, <<" ", "A", "l", " ">> }

\* CNPJs matter only by their format and by being equal or not: the k-th
\* distinct CNPJ typed in a run is CnpjDe(k)
CnpjDe(k) == Rep(DigitStr[k + 1], TamanhoCnpj)
CnpjInputs(es) ==
    { CnpjDe(k) : k \in 1..(Len(es) + 1) }
    \cup { <<" ">> \o CnpjDe(1) \o <<" ">>,
           Rep("1", TamanhoCnpj - 1), Rep("1", TamanhoCnpj + 1),
           Rep("1", TamanhoCnpj - 1) \o <<"x">> }

\* likewise the k-th distinct well-formed email typed in a run is EmailDe(k)
EmailDe(k) == <<Minusculas[k], "@", "b", ".", "c">>
EmailLoginInputs(us) ==
    { EmailDe(k) : k \in 1..(Len(us) + 1) } \cup { <<" ", "A", "@", "B", ".", "c", " ">> }
EmailInputs(us) ==
    EmailLoginInputs(us) \cup { <<"a", ".", "b">>, <<"a", "@", "b">> }

SenhaA == <<"a", "b", "c", "1", "2", "3">>
SenhaB == <<"a", "b", "c", "1", "2", "4">>
SenhaCurta == <<"a", "b", "c", "1", "2">>
SenhaInputs == { SenhaA, SenhaCurta }
ConfirmaInputs == { SenhaA, SenhaB, SenhaCurta }
SenhaLoginInputs == { SenhaA, SenhaB }

SimNaoInputs == { <<"S">>, <<" ", "s">>, <<"N">> }

\* texts typed where an id is asked for
IdInputs(n) == { Str(i) : i \in 1..(n + 1) } \cup { <<" ", "1", " ">>, <<"x">> }

\* texts typed at "Sua escolha:" of configurar_permissoes_usuario
EscolhaInputs ==
    { <<"n", "e", "n", "h", "u", "m">>, <<"T", "O", "D", "O", "S", " ">>,
      <<"1", ",", " ", "9">>, <<"2", ",", "2">>, <<"1", ",", "x">> }

\* texts typed at the menus
OpcaoInputs == { Str(i) : i \in 0..7 } \cup { <<" ", "1", " ">>, <<"x">> }

(***************************************************************************)
(* What the console reports for a step: the operation and the kind of its *)
(* message (ok, validacao: malformed entry, conflito: duplicate key,       *)
(* nao_encontrado: no such row, ...).                                      *)
(***************************************************************************)
R(op, motivo, u) == [op |-> op, motivo |-> motivo, usuario |-> u]

Limpo == R("", "", 0)

Rejeita(op, motivo) ==
    /\ resultado' = R(op, motivo, 0)
    /\ UNCHANGED store

(***************************************************************************)
(* gestao_usuarios.py: cadastrar_empresa                                   *)
(***************************************************************************)
\* mutant: only the length of the CNPJ is tested
cnpj_invalido_so_tamanho(cnpj) == Len(cnpj) # TamanhoCnpj

\* line 36: the CNPJ test
cnpj_invalido(cnpj) == Len(cnpj) # TamanhoCnpj \/ ~IsDigit(cnpj)

\* db.query(Empresa).filter(Empresa.cnpj == cnpj).first()
ExisteCnpj(es, cnpj) == \E e \in 1..Len(es) : es[e].cnpj = cnpj

cadastrar_empresa ==
    \E nome_txt \in NomeInputs :
      LET nome == Strip(nome_txt) IN
      IF Len(nome) < MinNome
      THEN Rejeita("cadastrar_empresa", "validacao")
      ELSE \E cnpj_txt \in CnpjInputs(empresas) :
        LET cnpj == Strip(cnpj_txt) IN
        IF cnpj_invalido(cnpj)
        THEN Rejeita("cadastrar_empresa", "validacao")
        ELSE IF ExisteCnpj(empresas, cnpj)
        THEN Rejeita("cadastrar_empresa", "conflito")
        ELSE /\ Len(empresas) + Len(usuarios) < MaxLinhas
             /\ empresas' = Append(empresas, [nome |-> nome, cnpj |-> cnpj, ativa |-> TRUE])
             /\ resultado' = R("cadastrar_empresa", "ok", 0)
             /\ UNCHANGED <<usuarios, permissoes, usuario_permissoes>>

(***************************************************************************)
(* gestao_usuarios.py: configurar_permissoes_usuario                       *)
(***************************************************************************)
\* mutant: every row counts as available, inactive ones included
todas_as_linhas(ps) == 1..Len(ps)

Ativas(ps) == {p \in 1..Len(ps) : ps[p].ativa}

SemGrantsDe(up, u) == {g \in up : g[1] # u}

\* The session comes from database.SessionLocal and the storage may fail:
\* "auto" flushes before every query, "commit" flushes at db.commit() only,
\* "falha" is a db.commit() that raises.
Sessoes == {"auto", "commit", "falha"}

\* mutant: an admin is configured like anyone else
alvo_admin_nunca(us, u) == FALSE

\* line 304
alvo_admin(us, u) == us[u].is_admin

\* mutant: every typed id is appended, found or not
achados_sem_consulta(ps, vals) == vals

\* lines 359-362: the typed ids that have a row in permissoes
achados(ps, vals) == {v \in vals : v \in 1..Len(ps)}

\* mutant: the old grants are kept and the new ones added
mesclar(up, u, novos) == up \cup {<<u, p>> : p \in novos}

\* lines 343, 348, 356-362: the collection of usuario u replaced by novos
substituir(up, u, novos) == SemGrantsDe(up, u) \cup {<<u, p>> : p \in novos}

\* mutant: what was flushed before the failure stays
rollback_parcial(up_antes, up_pendente) == up_pendente

\* line 378: db.rollback()
rollback(up_antes, up_pendente) == up_antes

\* lines 311-379 for a found, non-admin usuario u: the new permissoes and
\* usuario_permissoes tables and what is reported
configurar_escolha(ps, up, u, escolha_txt, sessao) ==
    LET ps1 == IF Ativas(ps) = {} THEN criar_permissoes_padrao(ps) ELSE ps
        escolha == Lower(Strip(escolha_txt))
        nenhum == escolha = <<"n", "e", "n", "h", "u", "m">>
        todos == escolha = <<"t", "o", "d", "o", "s">>
        tokens == Split(escolha, ",")
        ids == [i \in 1..Len(tokens) |-> ParseInt(tokens[i])]
        novos == achados(ps1, {ids[i].val : i \in 1..Len(ids)})
        \* the same permission appended twice is inserted twice at commit,
        \* unless its row is already in the association table
        repetido == \E i, j \in 1..Len(ids) :
                       /\ i # j
                       /\ ids[i].val = ids[j].val
                       /\ ids[i].val \in novos
                       /\ <<u, ids[i].val>> \notin up
        falhou == sessao = "falha" \/ (~nenhum /\ ~todos /\ sessao = "commit" /\ repetido)
    IN  IF ~nenhum /\ ~todos /\ \E i \in 1..Len(ids) : ~ids[i].ok
        THEN [permissoes |-> ps1, usuario_permissoes |-> up, motivo |-> "validacao"]
        ELSE IF falhou
        THEN [permissoes |-> ps1,
              usuario_permissoes |-> rollback(up, SemGrantsDe(up, u)),
              motivo |-> "erro"]
        ELSE [permissoes |-> ps1,
              usuario_permissoes |->
                  substituir(up, u, IF nenhum THEN {}
                                    ELSE IF todos THEN Ativas(ps1) ELSE novos),
              motivo |-> "ok"]

\* one run of configurar_permissoes_usuario(db) with these entries
configurar_permissoes_de(id_txt, escolha_txt, sessao) ==
    LET usuario_id == ParseInt(id_txt) IN
    IF ~usuario_id.ok
    THEN Rejeita("configurar_permissoes", "validacao")
    ELSE IF usuario_id.val \notin 1..Len(usuarios)
    THEN Rejeita("configurar_permissoes", "nao_encontrado")
    ELSE IF alvo_admin(usuarios, usuario_id.val)
    THEN Rejeita("configurar_permissoes", "admin")
    ELSE LET c == configurar_escolha(permissoes, usuario_permissoes,
                                     usuario_id.val, escolha_txt, sessao) IN
         /\ permissoes' = c.permissoes
         /\ usuario_permissoes' = c.usuario_permissoes
         \* the screen: the user, the grants listed before the prompt (lines
         \* 323-330), the entry and the message
         /\ resultado' = [op |-> "configurar_permissoes", motivo |-> c.motivo,
                          usuario |-> 0, alvo |-> usuario_id.val,
                          escolha |-> escolha_txt,
                          antes |-> PermissoesDe(usuario_permissoes, usuario_id.val)]
         /\ UNCHANGED <<empresas, usuarios>>

configurar_permissoes_usuario ==
    \E id_txt \in IdInputs(Len(usuarios)), escolha_txt \in EscolhaInputs,
       sessao \in Sessoes :
      configurar_permissoes_de(id_txt, escolha_txt, sessao)

(***************************************************************************)
(* gestao_usuarios.py: cadastrar_usuario                                   *)
(***************************************************************************)
\* mutant: the email is not lowercased
ler_email_sem_lower(email_txt) == Strip(email_txt)

\* lines 161 and 399: input(...).strip().lower()
ler_email(email_txt) == Lower(Strip(email_txt))

\* mutant: the length test is off by one
senha_curta_por_um(senha) == Len(senha) < MinSenha - 1

\* lines 173 and 178: the two password tests
senha_curta(senha) == Len(senha) < MinSenha

\* db.query(Usuario).filter(Usuario.email == email).first(): 0 is None
BuscaEmail(us, email) ==
    IF \E u \in 1..Len(us) : us[u].email = email
    THEN CHOOSE u \in 1..Len(us) :
            us[u].email = email /\ \A v \in 1..Len(us) : us[v].email = email => u <= v
    ELSE 0

cadastrar_usuario ==
    IF \A e \in 1..Len(empresas) : ~empresas[e].ativa
    THEN Rejeita("cadastrar_usuario", "nao_encontrado")
    ELSE \E id_txt \in IdInputs(Len(empresas)) :
      LET empresa_id == ParseInt(id_txt) IN
      IF ~empresa_id.ok
      THEN Rejeita("cadastrar_usuario", "validacao")
      ELSE IF empresa_id.val \notin 1..Len(empresas)
      THEN Rejeita("cadastrar_usuario", "nao_encontrado")
      ELSE \E nome_txt \in NomeInputs :
        IF Len(Strip(nome_txt)) < MinNome
        THEN Rejeita("cadastrar_usuario", "nome_curto")
        ELSE \E email_txt \in EmailInputs(usuarios) :
          LET email == ler_email(email_txt) IN
          IF ~Contem(email, "@") \/ ~Contem(email, ".")
          THEN Rejeita("cadastrar_usuario", "email_invalido")
          ELSE IF BuscaEmail(usuarios, email) # 0
          THEN Rejeita("cadastrar_usuario", "conflito")
          ELSE \E senha \in SenhaInputs :
            IF senha_curta(senha)
            THEN Rejeita("cadastrar_usuario", "senha_curta")
            ELSE \E confirma_senha \in ConfirmaInputs :
              IF senha # confirma_senha
              THEN Rejeita("cadastrar_usuario", "senhas_diferentes")
              ELSE \E admin_txt \in SimNaoInputs, agora_txt \in SimNaoInputs :
                LET is_admin == Upper(Strip(admin_txt)) = <<"S">>
                    usuario == [empresa_id |-> empresa_id.val,
                                nome |-> Strip(nome_txt),
                                email |-> email,
                                senha_hash |-> hash_password(senha, gensalt(Len(usuarios) + 1)),
                                ativo |-> TRUE,
                                is_admin |-> is_admin,
                                ultimo_login |-> 0]
                    id == Len(usuarios) + 1
                IN  /\ Len(empresas) + Len(usuarios) < MaxLinhas
                    /\ usuarios' = Append(usuarios, usuario)
                    /\ resultado' = R("cadastrar_usuario", "ok", 0)
                    /\ UNCHANGED empresas
                    /\ IF ~is_admin /\ Upper(Strip(agora_txt)) = <<"S">>
                       THEN \E escolha_txt \in EscolhaInputs, sessao \in Sessoes :
                              LET c == configurar_escolha(permissoes, usuario_permissoes,
                                                          id, escolha_txt, sessao) IN
                              /\ permissoes' = c.permissoes
                              /\ usuario_permissoes' = c.usuario_permissoes
                       ELSE UNCHANGED <<permissoes, usuario_permissoes>>

(***************************************************************************)
(* gestao_usuarios.py: fazer_login.  agora is datetime.utcnow(), which     *)
(* never runs behind a time already stored.                                *)
(***************************************************************************)
\* lines 428-446: the welcome screen, with the email as typed at line 399 and
\* the active permissions of the user (every module for an admin)
SemTela == [email |-> <<>>, todos |-> FALSE, modulos |-> {}]

boas_vindas(email_txt, u) ==
    [email |-> email_txt,
     todos |-> usuarios[u].is_admin,
     modulos |-> IF usuarios[u].is_admin THEN {}
                 ELSE {p \in PermissoesDe(usuario_permissoes, u) : permissoes[p].ativa}]

Agoras(us) == {t \in 1..MaxRelogio : \A u \in 1..Len(us) : us[u].ultimo_login <= t}

\* mutant: the company's ativa flag is not looked at
fazer_login_sem_empresa(email_txt, senha) ==
    LET email == ler_email(email_txt)
        u == BuscaEmail(usuarios, email)
    IN  IF u = 0
        THEN Rejeita("login", "credenciais")
        ELSE IF ~usuarios[u].ativo
        THEN Rejeita("login", "usuario_inativo")
        ELSE IF ~verify_password(senha, usuarios[u].senha_hash)
        THEN Rejeita("login", "credenciais")
        ELSE \E agora \in Agoras(usuarios) :
               /\ usuarios' = [usuarios EXCEPT ![u].ultimo_login = agora]
               /\ resultado' = R("login", "ok", u)
               /\ UNCHANGED <<empresas, permissoes, usuario_permissoes>>

\* mutant: the password is verified before the two ativo/ativa flags
fazer_login_senha_primeiro(email_txt, senha) ==
    LET email == ler_email(email_txt)
        u == BuscaEmail(usuarios, email)
    IN  IF u = 0
        THEN Rejeita("login", "credenciais")
        ELSE IF ~verify_password(senha, usuarios[u].senha_hash)
        THEN Rejeita("login", "credenciais")
        ELSE IF ~usuarios[u].ativo
        THEN Rejeita("login", "usuario_inativo")
        ELSE IF ~empresas[usuarios[u].empresa_id].ativa
        THEN Rejeita("login", "empresa_inativa")
        ELSE \E agora \in Agoras(usuarios) :
               /\ usuarios' = [usuarios EXCEPT ![u].ultimo_login = agora]
               /\ resultado' = R("login", "ok", u)
               /\ UNCHANGED <<empresas, permissoes, usuario_permissoes>>

\* mutant: ultimo_login is written as soon as the user is found
fazer_login_marca_antes(email_txt, senha) ==
    LET email == ler_email(email_txt)
        u == BuscaEmail(usuarios, email)
    IN  IF u = 0
        THEN Rejeita("login", "credenciais")
        ELSE \E agora \in Agoras(usuarios) :
               /\ usuarios' = [usuarios EXCEPT ![u].ultimo_login = agora]
               /\ UNCHANGED <<empresas, permissoes, usuario_permissoes>>
               /\ resultado' =
                     IF ~usuarios[u].ativo THEN R("login", "usuario_inativo", 0)
                     ELSE IF ~empresas[usuarios[u].empresa_id].ativa
                     THEN R("login", "empresa_inativa", 0)
                     ELSE IF ~verify_password(senha, usuarios[u].senha_hash)
                     THEN R("login", "credenciais", 0)
                     ELSE R("login", "ok", u)

\* mutant: a login refused for the company deactivates the user as well
fazer_login_cascata(email_txt, senha) ==
    LET email == ler_email(email_txt)
        u == BuscaEmail(usuarios, email)
    IN  IF u = 0
        THEN Rejeita("login", "credenciais")
        ELSE IF ~usuarios[u].ativo
        THEN Rejeita("login", "usuario_inativo")
        ELSE IF ~empresas[usuarios[u].empresa_id].ativa
        THEN /\ usuarios' = [usuarios EXCEPT ![u].ativo = FALSE]
             /\ resultado' = R("login", "empresa_inativa", 0)
             /\ UNCHANGED <<empresas, permissoes, usuario_permissoes>>
        ELSE IF ~verify_password(senha, usuarios[u].senha_hash)
        THEN Rejeita("login", "credenciais")
        ELSE \E agora \in Agoras(usuarios) :
               /\ usuarios' = [usuarios EXCEPT ![u].ultimo_login = agora]
               /\ resultado' = R("login", "ok", u)
               /\ UNCHANGED <<empresas, permissoes, usuario_permissoes>>

\* mutant: the email typed at the login is stripped but not lowercased
fazer_login_sem_lower(email_txt, senha) ==
    LET email == Strip(email_txt)
        u == BuscaEmail(usuarios, email)
    IN  IF u = 0
        THEN Rejeita("login", "credenciais")
        ELSE IF ~usuarios[u].ativo
        THEN Rejeita("login", "usuario_inativo")
        ELSE IF ~empresas[usuarios[u].empresa_id].ativa
        THEN Rejeita("login", "empresa_inativa")
        ELSE IF ~verify_password(senha, usuarios[u].senha_hash)
        THEN Rejeita("login", "credenciais")
        ELSE \E agora \in Agoras(usuarios) :
               /\ usuarios' = [usuarios EXCEPT ![u].ultimo_login = agora]
               /\ resultado' = R("login", "ok", u)
               /\ UNCHANGED <<empresas, permissoes, usuario_permissoes>>

fazer_login(email_txt, senha) ==
    LET email == ler_email(email_txt)
        u == BuscaEmail(usuarios, email)
    IN  IF u = 0
        THEN Rejeita("login", "credenciais")
        ELSE IF ~usuarios[u].ativo
        THEN Rejeita("login", "usuario_inativo")
        ELSE IF ~empresas[usuarios[u].empresa_id].ativa
        THEN Rejeita("login", "empresa_inativa")
        ELSE IF ~verify_password(senha, usuarios[u].senha_hash)
        THEN Rejeita("login", "credenciais")
        ELSE \E agora \in Agoras(usuarios) :
               /\ usuarios' = [usuarios EXCEPT ![u].ultimo_login = agora]
               /\ resultado' = R("login", "ok", u)
               /\ UNCHANGED <<empresas, permissoes, usuario_permissoes>>

(***************************************************************************)
(* main_auth.py: verificar_permissao, exibir_menu_principal                *)
(***************************************************************************)
\* mutant: decides on the permissions listed at the login
verificar_permissao_do_login(codigo_modulo) ==
    /\ usuario_logado # 0
    /\ \/ tela_login.todos
       \/ \E p \in tela_login.modulos : permissoes[p].codigo = codigo_modulo

verificar_permissao(codigo_modulo) ==
    IF usuario_logado = 0 THEN FALSE
    ELSE tem_permissao(usuarios, permissoes, usuario_permissoes, usuario_logado,
                       codigo_modulo)

ModulosMenu == <<"operacional", "estoque_entrada", "estoque_saida", "financeiro", "rh">>

\* mutant: every module is offered
exibir_menu_sem_verificar ==
    ModulosMenu \o (IF usuarios[usuario_logado].is_admin THEN <<"gestao">> ELSE <<>>)

exibir_menu_principal ==
    LET Mostra(codigo) == usuarios[usuario_logado].is_admin \/ verificar_permissao(codigo)
    IN  SelectSeq(ModulosMenu, Mostra)
        \o (IF usuarios[usuario_logado].is_admin THEN <<"gestao">> ELSE <<>>)

\* menu_gestao_usuarios, up to its loop: init_db() and the seeding
menu_gestao_usuarios(de) ==
    /\ permissoes' = criar_permissoes_padrao(permissoes)
    /\ pc' = "gestao"
    /\ retorno' = de
    /\ UNCHANGED <<empresas, usuarios, usuario_permissoes>>

(***************************************************************************)
(* main_auth.py: iniciar_sistema_autenticado                               *)
(***************************************************************************)
Init ==
    /\ empresas = <<>>
    /\ usuarios = <<>>
    /\ permissoes = <<>>
    /\ usuario_permissoes = {}
    /\ usuario_logado = 0
    /\ tela_login = SemTela
    /\ opcoes_disponiveis = <<>>
    /\ pc = "start"
    /\ retorno = "inicial"
    /\ resultado = Limpo

\* lines 118-128: init_db(), SessionLocal(), criar_permissoes_padrao(db_session)
Iniciar ==
    /\ pc = "start"
    /\ permissoes' = criar_permissoes_padrao(permissoes)
    /\ pc' = "inicial"
    /\ resultado' = R("seed", "ok", 0)
    /\ UNCHANGED <<empresas, usuarios, usuario_permissoes, usuario_logado, tela_login,
                   opcoes_disponiveis, retorno>>

\* lines 143-149: opcao "1"
MenuInicialLogin ==
    /\ pc = "inicial"
    /\ \E opcao_txt \in OpcaoInputs, email_txt \in EmailLoginInputs(usuarios),
          senha \in SenhaLoginInputs :
         /\ Strip(opcao_txt) = <<"1">>
         /\ fazer_login(email_txt, senha)
         /\ usuario_logado' = resultado'.usuario
         /\ tela_login' = IF resultado'.usuario # 0
                          THEN boas_vindas(email_txt, resultado'.usuario)
                          ELSE SemTela
         /\ pc' = IF resultado'.usuario # 0 THEN "enter_principal" ELSE "inicial"
         /\ UNCHANGED <<opcoes_disponiveis, retorno>>

\* lines 177-179: opcao "2"
MenuInicialGestao ==
    /\ pc = "inicial"
    /\ \E opcao_txt \in OpcaoInputs :
         /\ Strip(opcao_txt) = <<"2">>
         /\ menu_gestao_usuarios("inicial")
         /\ resultado' = R("seed", "ok", 0)
         /\ UNCHANGED <<usuario_logado, tela_login, opcoes_disponiveis>>

\* lines 181-185: opcao "0"
MenuInicialSair ==
    /\ pc = "inicial"
    /\ \E opcao_txt \in OpcaoInputs :
         /\ Strip(opcao_txt) = <<"0">>
         /\ pc' = "fim"
         /\ resultado' = Limpo
         /\ UNCHANGED <<store, usuario_logado, tela_login, opcoes_disponiveis, retorno>>

\* lines 187-188
MenuInicialInvalida ==
    /\ pc = "inicial"
    /\ \E opcao_txt \in OpcaoInputs :
         /\ Strip(opcao_txt) \notin {<<"0">>, <<"1">>, <<"2">>}
         /\ resultado' = Limpo
         /\ UNCHANGED <<store, usuario_logado, tela_login, opcoes_disponiveis, pc, retorno>>

\* lines 149 and 173: input("Pressione Enter para continuar...")
EnterPrincipal ==
    /\ pc = "enter_principal"
    /\ pc' = "principal"
    /\ resultado' = Limpo
    /\ UNCHANGED <<store, usuario_logado, tela_login, opcoes_disponiveis, retorno>>

\* lines 152-153
MenuPrincipalExibir ==
    /\ pc = "principal"
    /\ usuario_logado # 0
    /\ opcoes_disponiveis' = exibir_menu_principal
    /\ pc' = "escolha"
    /\ resultado' = Limpo
    /\ UNCHANGED <<store, usuario_logado, tela_login, retorno>>

\* lines 155-175
MenuPrincipalEscolha ==
    /\ pc = "escolha"
    /\ opcoes_disponiveis' = <<>>
    /\ \E escolha_txt \in OpcaoInputs :
         LET escolha == Strip(escolha_txt) IN
         IF escolha = <<"0">>
         THEN /\ usuario_logado' = 0
              /\ tela_login' = SemTela
              /\ pc' = "inicial"
              /\ resultado' = Limpo
              /\ UNCHANGED <<store, retorno>>
         ELSE IF \E k \in 1..Len(opcoes_disponiveis) : Str(k) = escolha
         THEN LET k == CHOOSE j \in 1..Len(opcoes_disponiveis) : Str(j) = escolha
                  codigo_modulo == opcoes_disponiveis[k]
              IN  IF codigo_modulo = "gestao"
                  THEN /\ menu_gestao_usuarios("principal")
                       /\ resultado' = R("seed", "ok", 0)
                       /\ UNCHANGED <<usuario_logado, tela_login>>
                  ELSE /\ pc' = "enter_principal"
                       /\ resultado' = R("modulo", codigo_modulo, usuario_logado)
                       /\ UNCHANGED <<store, usuario_logado, tela_login, retorno>>
         ELSE /\ pc' = "principal"
              /\ resultado' = Limpo
              /\ UNCHANGED <<store, usuario_logado, tela_login, retorno>>

(***************************************************************************)
(* gestao_usuarios.py: the loop of menu_gestao_usuarios                    *)
(***************************************************************************)
Gestao(opcao, operacao) ==
    /\ pc = "gestao"
    /\ \E opcao_txt \in OpcaoInputs : Strip(opcao_txt) = opcao
    /\ operacao
    /\ pc' = "enter_gestao"
    /\ UNCHANGED <<usuario_logado, tela_login, opcoes_disponiveis, retorno>>

GestaoCadastrarEmpresa == Gestao(<<"1">>, cadastrar_empresa)

GestaoCadastrarUsuario == Gestao(<<"3">>, cadastrar_usuario)

GestaoConfigurarPermissoes == Gestao(<<"5">>, configurar_permissoes_usuario)

\* listar_empresas, listar_usuarios: read only
GestaoListar ==
    /\ pc = "gestao"
    /\ \E opcao_txt \in OpcaoInputs :
         /\ Strip(opcao_txt) \in {<<"2">>, <<"4">>}
         /\ resultado' = R("menu", "", 0)
    /\ pc' = "enter_gestao"
    /\ UNCHANGED <<store, usuario_logado, tela_login, opcoes_disponiveis, retorno>>

GestaoInvalida ==
    /\ pc = "gestao"
    /\ \E opcao_txt \in OpcaoInputs :
         /\ Strip(opcao_txt) \notin {Str(i) : i \in 0..5}
         /\ resultado' = R("menu", "", 0)
    /\ pc' = "enter_gestao"
    /\ UNCHANGED <<store, usuario_logado, tela_login, opcoes_disponiveis, retorno>>

\* line 500: input("Pressione Enter para continuar...")
GestaoEnter ==
    /\ pc = "enter_gestao"
    /\ pc' = "gestao"
    /\ resultado' = Limpo
    /\ UNCHANGED <<store, usuario_logado, tela_login, opcoes_disponiveis, retorno>>

\* opcao "0": back to the caller; called from the main menu, line 173 follows
GestaoVoltar ==
    /\ pc = "gestao"
    /\ \E opcao_txt \in OpcaoInputs : Strip(opcao_txt) = <<"0">>
    /\ pc' = IF retorno = "principal" THEN "enter_principal" ELSE "inicial"
    /\ resultado' = Limpo
    /\ UNCHANGED <<store, usuario_logado, tela_login, opcoes_disponiveis, retorno>>

(***************************************************************************)
(* The store is edited from outside the console while it waits at a menu:  *)
(* a company or a user is deactivated or reactivated, a permission row is  *)
(* renamed and deactivated, the grants of a user are replaced.             *)
(***************************************************************************)
NoMenu == pc \in {"inicial", "principal", "escolha", "gestao"}

ExternoEmpresa ==
    /\ NoMenu
    /\ \E e \in 1..Len(empresas) :
         empresas' = [empresas EXCEPT ![e].ativa = ~empresas[e].ativa]
    /\ resultado' = Limpo
    /\ UNCHANGED <<usuarios, permissoes, usuario_permissoes, usuario_logado, tela_login,
                   opcoes_disponiveis, pc, retorno>>

ExternoUsuario ==
    /\ NoMenu
    /\ \E u \in 1..Len(usuarios) :
         usuarios' = [usuarios EXCEPT ![u].ativo = ~usuarios[u].ativo]
    /\ resultado' = Limpo
    /\ UNCHANGED <<empresas, permissoes, usuario_permissoes, usuario_logado, tela_login,
                   opcoes_disponiveis, pc, retorno>>

EscolhaExternaInputs == {<<"n", "e", "n", "h", "u", "m">>, <<"1">>}

\* another console on the same store completes configurar_permissoes_usuario
\* for the user logged in here
ExternoConcessao ==
    /\ pc = "escolha"
    /\ \E u \in {usuario_logado}, escolha_txt \in EscolhaExternaInputs :
         LET c == configurar_escolha(permissoes, usuario_permissoes, u,
                                     escolha_txt, "auto") IN
         /\ ~usuarios[u].is_admin
         /\ c.motivo = "ok"
         /\ c.usuario_permissoes # usuario_permissoes
         /\ usuario_permissoes' = c.usuario_permissoes
         /\ permissoes' = c.permissoes
    /\ resultado' = Limpo
    /\ UNCHANGED <<empresas, usuarios, usuario_logado, tela_login,
                   opcoes_disponiveis, pc, retorno>>

ExternoPermissao ==
    /\ NoMenu
    /\ \E p \in 1..Len(permissoes) :
         /\ p <= MaxPermEditavel
         /\ permissoes' = [permissoes EXCEPT ![p].ativa = FALSE,
                                             ![p].nome = "Editado",
                                             ![p].descricao = "Editada"]
    /\ resultado' = Limpo
    /\ UNCHANGED <<empresas, usuarios, usuario_permissoes, usuario_logado, tela_login,
                   opcoes_disponiveis, pc, retorno>>

Next ==
    \/ Iniciar
    \/ MenuInicialLogin
    \/ MenuInicialGestao
    \/ MenuInicialSair
    \/ MenuInicialInvalida
    \/ EnterPrincipal
    \/ MenuPrincipalExibir
    \/ MenuPrincipalEscolha
    \/ GestaoCadastrarEmpresa
    \/ GestaoCadastrarUsuario
    \/ GestaoConfigurarPermissoes
    \/ GestaoListar
    \/ GestaoInvalida
    \/ GestaoEnter
    \/ GestaoVoltar
    \/ ExternoEmpresa
    \/ ExternoUsuario
    \/ ExternoPermissao
    \/ ExternoConcessao

Spec == Init /\ [][Next]_vars

(***************************************************************************)
(* Properties.                                                             *)
(***************************************************************************)
\* a step of opcao "1" of the first menu with these two entries
LoginStep(email_txt, senha) ==
    /\ pc = "inicial"
    /\ fazer_login(email_txt, senha)
    /\ usuario_logado' = resultado'.usuario

\* the users whose stored email is the entry, stripped (as the prompt reads
\* it) and lowercased
ComEmail(email_txt) ==
    {u \in 1..Len(usuarios) : usuarios[u].email = Lower(Strip(email_txt))}

\* the users a login with these entries must authenticate
Autenticavel(email_txt, senha) ==
    {u \in ComEmail(email_txt) :
        /\ usuarios[u].ativo
        /\ empresas[usuarios[u].empresa_id].ativa
        /\ verify_password(senha, usuarios[u].senha_hash)}

\* the password usuario u registered: what follows prefix and salt in the hash
SenhaRegistrada(u) == SubSeq(usuarios[u].senha_hash, 3, Len(usuarios[u].senha_hash))

\* C1: a login authenticates, and returns the user, exactly when a user has
\* the (stripped, lowercased) email, that user and its company are active and
\* the password verifies against the stored hash; otherwise nobody is logged
\* in.  An authenticating password is the registered one.
C1_LoginSseCredenciaisValidas ==
    [][\A email_txt \in EmailLoginInputs(usuarios), senha \in SenhaLoginInputs :
         LoginStep(email_txt, senha) =>
           /\ (usuario_logado' # 0) <=> (Autenticavel(email_txt, senha) # {})
           /\ usuario_logado' # 0 =>
                /\ usuario_logado' \in Autenticavel(email_txt, senha)
                /\ senha = SenhaRegistrada(usuario_logado')
                /\ resultado'.motivo = "ok"
                /\ pc' = "enter_principal"
           /\ usuario_logado' = 0 => pc' = "inicial"]_vars

C1_Witness ==
    /\ pc = "enter_principal"
    /\ resultado.op = "login"
    /\ resultado.motivo = "ok"
    /\ usuario_logado = resultado.usuario
    /\ usuario_logado # 0

\* C2: the reason of a rejected login is that of the first failing check, in
\* the order email lookup, user active, company active, password.
C2_MotivoDaPrimeiraFalha ==
    [][\A email_txt \in EmailLoginInputs(usuarios), senha \in SenhaLoginInputs :
         LoginStep(email_txt, senha) =>
           /\ ComEmail(email_txt) = {} => resultado'.motivo = "credenciais"
           /\ \A u \in ComEmail(email_txt) :
                LET inativo == ~usuarios[u].ativo
                    empresa_inativa == ~empresas[usuarios[u].empresa_id].ativa
                    senha_errada == ~verify_password(senha, usuarios[u].senha_hash)
                IN  /\ inativo => resultado'.motivo = "usuario_inativo"
                    /\ ~inativo /\ empresa_inativa
                         => resultado'.motivo = "empresa_inativa"
                    /\ resultado'.motivo = "credenciais"
                         <=> (~inativo /\ ~empresa_inativa /\ senha_errada)]_vars

C2_Witness ==
    /\ pc = "inicial"
    /\ resultado = R("login", "empresa_inativa", 0)
    /\ \E u \in 1..Len(usuarios) :
         usuarios[u].ativo /\ ~empresas[usuarios[u].empresa_id].ativa

\* C3: a rejected login changes nothing in the store and logs nobody in; a
\* user's ultimo_login changes only in the login step that authenticates
\* that user.
C3_LoginRejeitadoNadaMuda ==
    [][/\ (pc = "inicial" /\ resultado'.op = "login" /\ resultado'.motivo # "ok")
            => (UNCHANGED store /\ usuario_logado' = 0 /\ pc' = "inicial")
       /\ \A u \in 1..Len(usuarios) :
            usuarios'[u].ultimo_login # usuarios[u].ultimo_login
              => /\ pc = "inicial"
                 /\ resultado' = R("login", "ok", u)
                 /\ usuario_logado' = u]_vars

C3_Witness ==
    /\ pc = "inicial"
    /\ resultado = R("login", "credenciais", 0)
    /\ usuario_logado = 0
    /\ \E u, v \in 1..Len(usuarios) :
         usuarios[u].ultimo_login # 0 /\ usuarios[v].ultimo_login = 0

\* C4: tem_permissao is true for an admin for every code, whatever is granted
\* or active; for anyone else it is true exactly when some granted permission
\* has the code and is active.
CodigosTestados == Codigos \cup {"gestao", "outro"}

C4_TemPermissao ==
    \A u \in 1..Len(usuarios), codigo \in CodigosTestados :
      tem_permissao(usuarios, permissoes, usuario_permissoes, u, codigo)
        = IF usuarios[u].is_admin THEN TRUE
          ELSE \E g \in usuario_permissoes :
                 /\ g[1] = u
                 /\ permissoes[g[2]].codigo = codigo
                 /\ permissoes[g[2]].ativa

C4_Witness ==
    /\ pc = "escolha"
    /\ usuario_logado # 0
    /\ ~usuarios[usuario_logado].is_admin
    /\ \E g \in usuario_permissoes :
         /\ g[1] = usuario_logado
         /\ permissoes[g[2]].codigo = "operacional"
         /\ ~permissoes[g[2]].ativa
    /\ ~Contem(opcoes_disponiveis, "operacional")
    /\ Contem(opcoes_disponiveis, "rh")

\* C5 (as claimed): every user is created in an existing company whose ativa
\* flag is true.
C5_UsuarioSoEmEmpresaAtiva ==
    [][Len(usuarios') > Len(usuarios) =>
         LET usuario == usuarios'[Len(usuarios')]
         IN  /\ usuario.empresa_id \in 1..Len(empresas)
             /\ empresas[usuario.empresa_id].ativa]_vars

\* C6 (as claimed): the menu of user and company management is open only
\* while an admin is the logged-in user.
C6_GestaoSoParaAdmin ==
    pc \in {"gestao", "enter_gestao"}
      => (usuario_logado # 0 /\ usuarios[usuario_logado].is_admin)

\* C7: no two users share an email, and every stored email is lowercase (so
\* no registration whose lowercased email is already stored went through).
C7_EmailUnicoMinusculo ==
    /\ \A u, v \in 1..Len(usuarios) : usuarios[u].email = usuarios[v].email => u = v
    /\ \A u \in 1..Len(usuarios) :
         \A i \in 1..Len(usuarios[u].email) :
           ~\E k \in 1..Len(Maiusculas) : usuarios[u].email[i] = Maiusculas[k]

C7_Witness ==
    /\ pc = "enter_gestao"
    /\ resultado = R("cadastrar_usuario", "conflito", 0)
    /\ Len(usuarios) >= 1
    /\ Len(empresas) >= 2

\* C8: cadastrar_empresa leaves the companies as they are when it rejects, and
\* what it inserts has a name of 3 or more characters and a CNPJ of exactly
\* 14 digits that no company held; so all CNPJs are distinct 14-digit strings.
C8_CadastroEmpresa ==
    /\ [](\A e \in 1..Len(empresas) :
            /\ Len(empresas[e].nome) >= 3
            /\ Len(empresas[e].cnpj) = 14
            /\ \A i \in 1..14 : empresas[e].cnpj[i] \in Digitos
            /\ \A f \in 1..Len(empresas) : empresas[f].cnpj = empresas[e].cnpj => f = e)
    /\ [][/\ (pc = "gestao" /\ resultado'.op = "cadastrar_empresa"
                /\ resultado'.motivo # "ok") => UNCHANGED store
          /\ Len(empresas') > Len(empresas) =>
               /\ Len(empresas') = Len(empresas) + 1
               /\ SubSeq(empresas', 1, Len(empresas)) = empresas
               /\ \A e \in 1..Len(empresas) :
                    empresas[e].cnpj # empresas'[Len(empresas')].cnpj
               /\ resultado' = R("cadastrar_empresa", "ok", 0)]_vars

C8_Witness ==
    /\ pc = "enter_gestao"
    /\ resultado = R("cadastrar_empresa", "conflito", 0)
    /\ Len(empresas) >= 1

\* C9: cadastrar_usuario changes nothing when it rejects; when it succeeds it
\* adds exactly one user, active, with a name of 3 or more characters, an
\* email holding "@" and ".", and as password value a hash that is no
\* plaintext and that a password of 6 or more characters verifies against.
Plaintexts == SenhaInputs \cup ConfirmaInputs \cup SenhaLoginInputs

C9_CadastroUsuario ==
    [][/\ (pc = "gestao" /\ resultado'.op = "cadastrar_usuario"
             /\ resultado'.motivo # "ok") => UNCHANGED store
       /\ (pc = "gestao" /\ resultado' = R("cadastrar_usuario", "ok", 0))
            => Len(usuarios') = Len(usuarios) + 1
       /\ Len(usuarios') > Len(usuarios) =>
            LET usuario == usuarios'[Len(usuarios')]
            IN  /\ Len(usuarios') = Len(usuarios) + 1
                /\ SubSeq(usuarios', 1, Len(usuarios)) = usuarios
                /\ empresas' = empresas
                /\ Len(usuario.nome) >= 3
                /\ Contem(usuario.email, "@") /\ Contem(usuario.email, ".")
                /\ usuario.ativo
                /\ usuario.senha_hash \notin Plaintexts
                /\ \E senha \in Plaintexts :
                     /\ Len(senha) >= 6
                     /\ verify_password(senha, usuario.senha_hash)
                /\ \A senha \in Plaintexts :
                     Len(senha) < 6 => ~verify_password(senha, usuario.senha_hash)]_vars

C9_Witness ==
    /\ pc = "enter_gestao"
    /\ resultado = R("cadastrar_usuario", "senhas_diferentes", 0)
    /\ usuarios = <<>>

\* C10: seeding is idempotent and never overwrites: once the console has
\* started the catalog holds exactly the five default codes, one row each,
\* and a seeding call leaves every row it finds as it is, renamed or
\* deactivated rows included.
C10_SeedIdempotente ==
    /\ [](pc # "start" =>
            /\ Len(permissoes) = Len(permissoes_padrao)
            /\ \A i \in 1..Len(permissoes) :
                 permissoes[i].codigo = permissoes_padrao[i].codigo)
    /\ [][(pc # "start" /\ resultado'.op = "seed") => permissoes' = permissoes]_vars

C10_Witness ==
    /\ pc = "gestao"
    /\ resultado.op = "seed"
    /\ permissoes[1].nome = "Editado"
    /\ ~permissoes[1].ativa
    /\ Len(permissoes) = 5

\* a step of opcao "5" of the management menu that got as far as the
\* selection: the screen then names the user, the grants before, the entry
ConfigStep ==
    /\ pc = "gestao"
    /\ resultado'.op = "configurar_permissoes"
    /\ "alvo" \in DOMAIN resultado'

NaoAdmins == {u \in 1..Len(usuarios) : ~usuarios[u].is_admin}

EscolhaNenhum == <<"n", "e", "n", "h", "u", "m">>
EscolhaTodos == <<"T", "O", "D", "O", "S", " ">>
EscolhaUmNove == <<"1", ",", " ", "9">>
EscolhaDoisDois == <<"2", ",", "2">>
EscolhaUmX == <<"1", ",", "x">>

\* the ids a list of ids names, read off the entry by hand
IdsDigitados(escolha_txt) ==
    IF escolha_txt = EscolhaUmNove THEN {1, 9}
    ELSE IF escolha_txt = EscolhaDoisDois THEN {2}
    ELSE {}

\* the grants of the users other than u are the same before and after
OutrosIguais(u) ==
    {g \in usuario_permissoes' : g[1] # u} = {g \in usuario_permissoes : g[1] # u}

\* C11: a list of ids replaces: after a successful call the user holds exactly
\* the typed ids that have a permission row, active or not; what was granted
\* before and is not typed is gone; an id without a row is ignored and does
\* not make the call fail.
C11_ListaSubstitui ==
    /\ [][(/\ ConfigStep
           /\ resultado'.escolha \in {EscolhaUmNove, EscolhaDoisDois}
           /\ resultado'.motivo = "ok")
          => /\ resultado'.antes = PermissoesDe(usuario_permissoes, resultado'.alvo)
             /\ PermissoesDe(usuario_permissoes', resultado'.alvo)
                  = IdsDigitados(resultado'.escolha) \cap (1..Len(permissoes))
             /\ OutrosIguais(resultado'.alvo)]_vars
    /\ [](pc = "gestao" =>
            \A u \in NaoAdmins, sessao \in {"auto", "commit"} :
              configurar_escolha(permissoes, usuario_permissoes, u,
                                 EscolhaUmNove, sessao).motivo = "ok")

C11_Witness ==
    /\ pc = "enter_gestao"
    /\ resultado.op = "configurar_permissoes"
    /\ resultado.motivo = "ok"
    /\ resultado.escolha = EscolhaUmNove
    /\ 2 \in resultado.antes
    /\ PermissoesDe(usuario_permissoes, resultado.alvo) = {1}
    /\ ~permissoes[1].ativa

\* C12: "todos" grants exactly the permissions that are active at that
\* moment, "nenhum" grants nothing, and after "todos" then "nenhum" the user
\* holds nothing and has permission for no code.
C12_TodosNenhum ==
    /\ [][(ConfigStep /\ resultado'.motivo = "ok")
          => /\ resultado'.escolha = EscolhaTodos =>
                  /\ PermissoesDe(usuario_permissoes', resultado'.alvo)
                       = {p \in 1..Len(permissoes') : permissoes'[p].ativa}
                  /\ OutrosIguais(resultado'.alvo)
             /\ resultado'.escolha = EscolhaNenhum =>
                  /\ PermissoesDe(usuario_permissoes', resultado'.alvo) = {}
                  /\ OutrosIguais(resultado'.alvo)
                  /\ \A codigo \in CodigosTestados :
                       ~tem_permissao(usuarios', permissoes', usuario_permissoes',
                                      resultado'.alvo, codigo)]_vars
    /\ [](pc = "gestao" =>
            \A u \in NaoAdmins, sessao \in {"auto", "commit"},
               escolha_txt \in {EscolhaTodos, EscolhaNenhum} :
              configurar_escolha(permissoes, usuario_permissoes, u,
                                 escolha_txt, sessao).motivo = "ok")

C12_Witness ==
    /\ pc = "enter_gestao"
    /\ resultado.op = "configurar_permissoes"
    /\ resultado.motivo = "ok"
    /\ resultado.escolha = EscolhaNenhum
    /\ resultado.antes = {p \in 1..Len(permissoes) : permissoes[p].ativa}
    /\ resultado.antes # {}
    /\ ~permissoes[1].ativa
    /\ PermissoesDe(usuario_permissoes, resultado.alvo) = {}

\* C13: configuring an admin changes nothing: the call ends before a
\* selection is read, so no selection is ever applied to an admin, and the
\* admin keeps permission for every code.
C13_AdminNaoConfigurado ==
    [][/\ ConfigStep => ~usuarios[resultado'.alvo].is_admin
       /\ (pc = "gestao" /\ resultado' = R("configurar_permissoes", "admin", 0))
            => UNCHANGED store
       /\ (pc = "gestao" /\ resultado'.op = "configurar_permissoes")
            => \A u \in 1..Len(usuarios) :
                 usuarios[u].is_admin =>
                   /\ PermissoesDe(usuario_permissoes', u)
                        = PermissoesDe(usuario_permissoes, u)
                   /\ \A codigo \in CodigosTestados :
                        tem_permissao(usuarios', permissoes', usuario_permissoes',
                                      u, codigo)]_vars

C13_Witness ==
    /\ pc = "enter_gestao"
    /\ resultado = R("configurar_permissoes", "admin", 0)
    /\ \E u, v \in 1..Len(usuarios) :
         /\ usuarios[u].is_admin
         /\ ~usuarios[v].is_admin
         /\ PermissoesDe(usuario_permissoes, v) # {}

\* C14: a configuration that does not succeed (a token that is no integer, a
\* key violation on the new grants, a commit that fails) leaves every user's
\* grants as they were before the call.
C14_TudoOuNada ==
    /\ [][(ConfigStep /\ resultado'.motivo # "ok")
          => /\ usuario_permissoes' = usuario_permissoes
             /\ UNCHANGED <<empresas, usuarios>>]_vars
    /\ [](pc = "gestao" =>
            \A u \in NaoAdmins :
              /\ \A sessao \in Sessoes :
                   configurar_escolha(permissoes, usuario_permissoes, u,
                                      EscolhaUmX, sessao).motivo = "validacao"
              /\ \A escolha_txt \in EscolhaInputs \ {EscolhaUmX} :
                   configurar_escolha(permissoes, usuario_permissoes, u,
                                      escolha_txt, "falha").motivo = "erro"
              /\ <<u, 2>> \notin usuario_permissoes =>
                   configurar_escolha(permissoes, usuario_permissoes, u,
                                      EscolhaDoisDois, "commit").motivo = "erro")

C14_Witness ==
    /\ pc = "enter_gestao"
    /\ resultado.op = "configurar_permissoes"
    /\ resultado.motivo = "erro"
    /\ resultado.escolha = EscolhaDoisDois
    /\ resultado.antes = {1}
    /\ PermissoesDe(usuario_permissoes, resultado.alvo) = {1}

\* the codes the rows of the store give usuario u at this moment
CodigosConcedidos(u) ==
    {permissoes[p].codigo :
       p \in {q \in PermissoesDe(usuario_permissoes, u) : permissoes[q].ativa}}

\* the codes of the permissions the welcome screen of the login listed
CodigosNoLogin == {permissoes[p].codigo : p \in tela_login.modulos}

Itens(seq) == {seq[i] : i \in 1..Len(seq)}

C16_EmpresaInativaSemCascata ==
    /\ [][\A e \in 1..Len(empresas) :
            (empresas' # empresas /\ empresas'[e].ativa # empresas[e].ativa)
              => /\ usuarios' = usuarios
                 /\ usuario_permissoes' = usuario_permissoes
                 /\ usuario_logado' = usuario_logado]_vars
    /\ [][(pc = "inicial" /\ resultado'.op = "login") =>
          \A email_txt \in EmailLoginInputs(usuarios), senha \in SenhaLoginInputs :
            LoginStep(email_txt, senha) =>
              \A u \in ComEmail(email_txt) :
                /\ ~empresas[usuarios[u].empresa_id].ativa
                     => /\ usuario_logado' = 0
                        /\ resultado'.motivo \in {"usuario_inativo", "empresa_inativa"}
                        /\ UNCHANGED store
                /\ (/\ empresas[usuarios[u].empresa_id].ativa
                    /\ usuarios[u].ativo
                    /\ senha = SenhaRegistrada(u))
                     => /\ usuario_logado' = u
                        /\ usuarios'[u].senha_hash = usuarios[u].senha_hash
                        /\ usuario_permissoes' = usuario_permissoes]_vars

\* a user who logged in before, still active and still holding grants, is
\* turned away because the company was deactivated since
C16_Witness ==
    /\ pc = "inicial"
    /\ resultado = R("login", "empresa_inativa", 0)
    /\ usuario_logado = 0
    /\ \E u \in 1..Len(usuarios) :
         /\ usuarios[u].ultimo_login # 0
         /\ usuarios[u].ativo
         /\ PermissoesDe(usuario_permissoes, u) # {}
         /\ ~empresas[usuarios[u].empresa_id].ativa
         /\ \A v \in 1..Len(usuarios) : v # u => usuarios[v].ultimo_login = 0

\* C17: register, then log in: a registration stores the email stripped and
\* lowercased with a hash of the password typed, and the user active; a
\* login whose email entry is, stripped and in any letter case, a registered
\* email, with the password registered, the user and the company active,
\* authenticates and returns that user.
C17_CadastroDepoisLogin ==
    /\ [][(pc = "gestao" /\ resultado' = R("cadastrar_usuario", "ok", 0)) =>
            LET novo == usuarios'[Len(usuarios')] IN
            /\ Len(usuarios') = Len(usuarios) + 1
            /\ novo.email = Lower(Strip(novo.email))
            /\ novo.ativo
            /\ empresas[novo.empresa_id].ativa =>
                 \E senha \in SenhaLoginInputs :
                   /\ verify_password(senha, novo.senha_hash)
                   /\ \A email_txt \in {novo.email, Upper(novo.email),
                                        <<" ">> \o Upper(novo.email) \o <<" ">>} :
                        Autenticavel(email_txt, senha)' = {Len(usuarios')}]_vars
    /\ [][(pc = "inicial" /\ resultado'.op = "login") =>
          \A email_txt \in EmailLoginInputs(usuarios), senha \in SenhaLoginInputs :
            LoginStep(email_txt, senha) =>
              \A u \in 1..Len(usuarios) :
                (/\ Lower(Strip(email_txt)) = Lower(usuarios[u].email)
                 /\ senha = SenhaRegistrada(u)
                 /\ usuarios[u].ativo
                 /\ empresas[usuarios[u].empresa_id].ativa)
                  => /\ usuario_logado' = u
                     /\ resultado' = R("login", "ok", u)
                     /\ pc' = "enter_principal"]_vars

\* logged in with an entry that is not the stored email letter for letter
C17_Witness ==
    /\ pc = "enter_principal"
    /\ resultado.op = "login"
    /\ resultado.motivo = "ok"
    /\ usuario_logado # 0
    /\ tela_login.email # usuarios[usuario_logado].email
    /\ Lower(Strip(tela_login.email)) = usuarios[usuario_logado].email
    /\ Upper(Strip(tela_login.email)) # Lower(Strip(tela_login.email))
    /\ usuarios[usuario_logado].ultimo_login # 0

\* the modules usuario u may use on the store of the moment
ModulosPermitidos(u) ==
    {codigo \in Itens(ModulosMenu) :
        tem_permissao(usuarios, permissoes, usuario_permissoes, u, codigo)}

\* C18: a business module runs only from the main menu, for the user logged
\* in, and only if the menu built last offered it; a menu offers exactly the
\* modules the user is admin or has permission for when it is built.  With
\* nobody logged in verificar_permissao is false for every code; the logout
\* choice leaves nobody logged in, and a login is attempted only then.
C18_PortaoDosModulos ==
    /\ [](/\ usuario_logado = 0 =>
               \A codigo \in CodigosTestados : ~verificar_permissao(codigo)
          /\ pc \in {"enter_principal", "principal", "escolha"} => usuario_logado # 0
          /\ pc \in {"start", "inicial", "fim"} => usuario_logado = 0
          /\ pc # "escolha" => opcoes_disponiveis = <<>>)
    /\ [][/\ (pc = "principal" /\ pc' = "escolha") =>
              /\ Itens(opcoes_disponiveis') \ {"gestao"}
                   = ModulosPermitidos(usuario_logado)
              /\ "gestao" \in Itens(opcoes_disponiveis')
                   <=> usuarios[usuario_logado].is_admin
              /\ UNCHANGED <<store, usuario_logado>>
          /\ (pc = "escolha" /\ pc' = "escolha") =>
              opcoes_disponiveis' = opcoes_disponiveis
          /\ resultado'.op = "modulo" =>
              /\ pc = "escolha"
              /\ usuario_logado # 0
              /\ resultado'.usuario = usuario_logado
              /\ resultado'.motivo \in Itens(opcoes_disponiveis) \cap Itens(ModulosMenu)
              /\ UNCHANGED <<store, usuario_logado>>
          /\ resultado'.op = "login" =>
              /\ pc = "inicial"
              /\ usuario_logado = 0
          /\ (pc = "escolha" /\ pc' = "inicial") => usuario_logado' = 0
          /\ (usuario_logado = 0 /\ usuario_logado' # 0) =>
              resultado' = R("login", "ok", usuario_logado')]_vars

\* a non-admin ran a module granted to them while another module is not
C18_Witness ==
    /\ pc = "enter_principal"
    /\ resultado.op = "modulo"
    /\ usuario_logado # 0
    /\ resultado.usuario = usuario_logado
    /\ ~usuarios[usuario_logado].is_admin
    /\ resultado.motivo \in ModulosPermitidos(usuario_logado)
    /\ ModulosPermitidos(usuario_logado) # Itens(ModulosMenu)
    /\ usuarios[usuario_logado].ultimo_login # 0

\* the users, every one of them taken as active
TodosAtivos == [u \in 1..Len(usuarios) |-> [usuarios[u] EXCEPT !.ativo = TRUE]]

\* the user logged in, or that user's company, is inactive
LogadoInativo ==
    /\ usuario_logado # 0
    /\ \/ ~usuarios[usuario_logado].ativo
       \/ ~empresas[usuarios[usuario_logado].empresa_id].ativa

\* C19: the two activity flags are looked at by the login only: when the
\* user logged in, or the company, turns inactive, the user stays logged in
\* and the menus keep offering what the grants give; the user logged in
\* changes only by the logout choice, and a login of an inactive user or of
\* a user of an inactive company is rejected.
C19_AtividadeSoNoLogin ==
    /\ [][/\ (usuario_logado # 0 /\ usuario_logado' # usuario_logado) =>
              /\ pc = "escolha"
              /\ pc' = "inicial"
              /\ usuario_logado' = 0
          /\ (usuario_logado # 0 /\ ~LogadoInativo /\ LogadoInativo') =>
              /\ usuario_logado' = usuario_logado
              /\ pc' = pc
              /\ usuario_permissoes' = usuario_permissoes
          /\ (pc = "principal" /\ pc' = "escolha") =>
              Itens(opcoes_disponiveis') \ {"gestao"}
                = {codigo \in Itens(ModulosMenu) :
                     tem_permissao(TodosAtivos, permissoes, usuario_permissoes,
                                   usuario_logado, codigo)}
          /\ (pc = "escolha" /\ LogadoInativo) =>
              \A k \in 1..Len(opcoes_disponiveis) :
                opcoes_disponiveis[k] # "gestao" =>
                  ENABLED (/\ MenuPrincipalEscolha
                           /\ resultado' = R("modulo", opcoes_disponiveis[k],
                                             usuario_logado))]_vars
    /\ [][(pc = "inicial" /\ resultado'.op = "login") =>
          \A email_txt \in EmailLoginInputs(usuarios), senha \in SenhaLoginInputs :
            LoginStep(email_txt, senha) =>
              \A u \in ComEmail(email_txt) :
                (~usuarios[u].ativo \/ ~empresas[usuarios[u].empresa_id].ativa)
                  => /\ usuario_logado' = 0
                     /\ resultado'.motivo \in {"usuario_inativo", "empresa_inativa"}]_vars

\* a non-admin deactivated together with the company since the login ran a
\* granted module
C19_Witness ==
    /\ pc = "enter_principal"
    /\ resultado.op = "modulo"
    /\ resultado.usuario = usuario_logado
    /\ usuario_logado # 0
    /\ ~usuarios[usuario_logado].is_admin
    /\ ~usuarios[usuario_logado].ativo
    /\ ~empresas[usuarios[usuario_logado].empresa_id].ativa
    /\ resultado.motivo \in CodigosConcedidos(usuario_logado)

\* C20: references hold in every state: a user's empresa_id is the id of a
\* company row and never changes; companies and users are never removed;
\* every grant names a user row and a permission row; a user just
\* registered had no grant before, an admin has none after, and a
\* non-admin without grants has permission for no module; grants appear
\* for a user who had none only where a permission assignment succeeds.
C20_IntegridadeReferencial ==
    /\ [](/\ \A u \in 1..Len(usuarios) :
               usuarios[u].empresa_id \in 1..Len(empresas)
          /\ \A g \in usuario_permissoes :
               /\ g[1] \in 1..Len(usuarios)
               /\ g[2] \in 1..Len(permissoes)
          /\ \A u \in NaoAdmins :
               PermissoesDe(usuario_permissoes, u) = {} =>
                 \A codigo \in CodigosTestados :
                   ~tem_permissao(usuarios, permissoes, usuario_permissoes, u, codigo))
    /\ [][/\ Len(empresas') >= Len(empresas)
          /\ Len(usuarios') >= Len(usuarios)
          /\ Len(permissoes') >= Len(permissoes)
          /\ \A u \in 1..Len(usuarios) :
               /\ usuarios'[u].empresa_id = usuarios[u].empresa_id
               /\ (PermissoesDe(usuario_permissoes, u) = {}
                   /\ PermissoesDe(usuario_permissoes', u) # {})
                    => \/ /\ ConfigStep
                          /\ resultado'.motivo = "ok"
                          /\ resultado'.alvo = u
                       \/ /\ pc = "escolha"
                          /\ pc' = "escolha"
                          /\ u = usuario_logado
          /\ Len(usuarios') # Len(usuarios) =>
               LET id == Len(usuarios') IN
               /\ id = Len(usuarios) + 1
               /\ pc = "gestao"
               /\ resultado' = R("cadastrar_usuario", "ok", 0)
               /\ usuarios'[id].empresa_id \in 1..Len(empresas)
               /\ PermissoesDe(usuario_permissoes, id) = {}
               /\ usuarios'[id].is_admin => PermissoesDe(usuario_permissoes', id) = {}
               /\ {g \in usuario_permissoes' : g[1] # id} = usuario_permissoes]_vars

\* a non-admin just registered in the second company, without grants
C20_Witness ==
    /\ pc = "enter_gestao"
    /\ resultado = R("cadastrar_usuario", "ok", 0)
    /\ Len(usuarios) >= 1
    /\ LET id == Len(usuarios) IN
       /\ ~usuarios[id].is_admin
       /\ usuarios[id].empresa_id = 2
       /\ usuarios[id].ultimo_login = 0
       /\ PermissoesDe(usuario_permissoes, id) = {}
       /\ \A codigo \in Itens(ModulosMenu) :
            ~tem_permissao(usuarios, permissoes, usuario_permissoes, id, codigo)

====
